---- MODULE Spec2Model ----
(***************************************************************************)
(* Time evaluation and composition in iceberg/animation/scene.py:          *)
(* the keyframe evaluator Animated, the time freezer Frozen, the Scene     *)
(* algebra with its render loop, and the Playbook builder.                 *)
(*                                                                         *)
(* Times and durations are rationals [n |-> numerator, d |-> denominator]  *)
(* in lowest terms.  The program computes on Python numbers; every         *)
(* arithmetic step of the program goes through FAdd/FSub/FMul/FDiv, which  *)
(* round the exact result to `prec` significant bits (a binary floating    *)
(* point format with a short significand), or not at all when prec = 0     *)
(* (Python ints, and floats whose results are exactly representable).      *)
(***************************************************************************)
EXTENDS Integers, Sequences, FiniteSets, TLC

VARIABLES
    prec,           \* significand bits of the arithmetic of this run; 0: exact
    \* ---- Animated (the child) and the Frozen wrapper around it
    _durations,     \* Animated._durations
    _start_time,    \* Animated._start_time
    _time,          \* the child's time cursor (Drawable._time)
    _t,             \* Frozen._t
    observed,       \* what the last access returned, and through what
    \* ---- Scene algebra
    scenes,         \* the Scene objects constructed so far, in order
    built,          \* how each was constructed: <<op, operand indices>>
    frame,          \* the last make_frame call and what it returned
    \* ---- Scene.render
    self,           \* the Scene being rendered
    fps,
    pc,             \* position in render
    total_frames,
    frame_index,
    bounds,         \* <<>> for None, <<b>> once set
    writer,         \* the imageio writer: its state and the frames appended
    failed_at,      \* <<>> or <<stage, frame index>> of the failing call
    \* ---- Playbook
    _scenes,        \* Playbook._scenes
    _cursor,        \* Playbook._cursor
    calls,          \* the timeline's calls so far, each with its contribution
    combined,       \* what the last read of combined_scene returned
    pb              \* "timeline" while the hook runs, "failed" once it raised

vars == <<prec, _durations, _start_time, _time, _t, observed,
          scenes, built, frame,
          self, fps, pc, total_frames, frame_index, bounds, writer, failed_at,
          _scenes, _cursor, calls, combined, pb>>

animated_vars == <<_durations, _start_time, _time, _t, observed>>
scene_vars == <<scenes, built, frame>>
render_vars == <<self, fps, pc, total_frames, frame_index, bounds, writer, failed_at>>
playbook_vars == <<_scenes, _cursor, calls, combined, pb>>
not_animated == <<prec, scene_vars, render_vars, playbook_vars>>
not_scene == <<animated_vars, render_vars, playbook_vars>>
not_render == <<prec, animated_vars, scene_vars, playbook_vars>>
not_playbook == <<prec, animated_vars, scene_vars, render_vars>>

----------------------------------------------------------------------------
(* Bounds of the model.                                                    *)

\* segments of an Animated: 1 .. MaxSegments (MaxSegments + 1 states)
MaxSegments == 2
\* Scene objects constructed in one run of the scene algebra
MaxScenes == 3
\* frame rates 1 .. MaxFps
MaxFps == 3
\* calls the timeline hook makes
MaxCalls == 3
\* significand bits of the rounding arithmetic (53 in a Python float)
MantissaBits == 3

----------------------------------------------------------------------------
(* Rational numbers.                                                       *)

Abs(x) == IF x < 0 THEN -x ELSE x

RECURSIVE GCD(_, _)
GCD(a, b) == IF b = 0 THEN a ELSE GCD(b, a % b)

\* n/d in lowest terms with a positive denominator (d # 0)
Rat(n, d) ==
    LET nn == IF d < 0 THEN -n ELSE n
        dd == Abs(d)
        g == GCD(Abs(nn), dd)
    IN  [n |-> nn \div g, d |-> dd \div g]

Zero == Rat(0, 1)
One == Rat(1, 1)
Half == Rat(1, 2)
RAdd(x, y) == Rat(x.n * y.d + y.n * x.d, x.d * y.d)
RSub(x, y) == Rat(x.n * y.d - y.n * x.d, x.d * y.d)
RMul(x, y) == Rat(x.n * y.n, x.d * y.d)
RDiv(x, y) == Rat(x.n * y.d, x.d * y.n)
RNeg(x) == Rat(-x.n, x.d)
RLt(x, y) == x.n * y.d < y.n * x.d
RLe(x, y) == x.n * y.d <= y.n * x.d
RMax(x, y) == IF RLt(x, y) THEN y ELSE x
\* the largest integer <= x
RFloor(x) == x.n \div x.d

RECURSIVE RSum(_)
RSum(seq) == IF seq = <<>> THEN Zero
             ELSE RAdd(RSum(SubSeq(seq, 1, Len(seq) - 1)), seq[Len(seq)])

RECURSIVE Pow2(_)
Pow2(k) == IF k = 0 THEN 1 ELSE 2 * Pow2(k - 1)
\* 2^e as a rational, e of either sign
Pow2R(e) == IF e >= 0 THEN Rat(Pow2(e), 1) ELSE Rat(1, Pow2(-e))

----------------------------------------------------------------------------
(* The program's arithmetic: the exact result, rounded to p significant    *)
(* bits, to nearest, ties to the even significand.                         *)

\* the exponent e with 2^(p-1) <= y / 2^e < 2^p, searched from e (y > 0)
RECURSIVE Exponent(_, _, _)
Exponent(y, p, e) ==
    IF RLe(Pow2R(p + e), y) THEN Exponent(y, p, e + 1)
    ELSE IF RLt(y, Pow2R(p - 1 + e)) THEN Exponent(y, p, e - 1)
    ELSE e

\* q >= 0 rounded to the nearest integer, ties to even
RoundHalfEven(q) ==
    LET fl == RFloor(q)
        rest == RSub(q, Rat(fl, 1))
    IN  IF RLt(rest, Half) THEN fl
        ELSE IF RLt(Half, rest) THEN fl + 1
        ELSE IF fl % 2 = 0 THEN fl ELSE fl + 1

RECURSIVE IsPow2(_)
IsPow2(d) == d = 1 \/ (d % 2 = 0 /\ IsPow2(d \div 2))

\* x rounded to p significant bits; x itself when p = 0, or when x is
\* m / 2^k with |m| < 2^p
RoundTo(x, p) ==
    IF p = 0 \/ x.n = 0 THEN x
    ELSE IF Abs(x.n) < Pow2(p) /\ IsPow2(x.d) THEN x
    ELSE LET y == Rat(Abs(x.n), x.d)
             e == Exponent(y, p, 0)
             m == RoundHalfEven(RDiv(y, Pow2R(e)))
             r == RMul(Rat(m, 1), Pow2R(e))
         IN  IF x.n < 0 THEN RNeg(r) ELSE r

\* a value the arithmetic of this run can hold
Representable(x) == RoundTo(x, prec) = x

FAdd(x, y) == RoundTo(RAdd(x, y), prec)
FSub(x, y) == RoundTo(RSub(x, y), prec)
FMul(x, y) == RoundTo(RMul(x, y), prec)
FDiv(x, y) == RoundTo(RDiv(x, y), prec)

\* Python's sum(): left to right, from 0
RECURSIVE FSum(_)
FSum(seq) == IF seq = <<>> THEN Zero
             ELSE FAdd(FSum(SubSeq(seq, 1, Len(seq) - 1)), seq[Len(seq)])

\* Python's int(): truncation towards zero
int(x) == IF x.n >= 0 THEN x.n \div x.d ELSE -((-x.n) \div x.d)

----------------------------------------------------------------------------
(* Inputs.                                                                 *)

\* scene durations, in seconds
Durs == {Zero, Half, Rat(4, 1)}
\* segment durations of an Animated, in seconds
SegmentDurs == {Zero, Half, One}
\* query times, in seconds
Times == {Rat(k, 2) : k \in -2 .. 9}
\* query times of a Scene, in seconds
SceneTimes == {Rat(-1, 2), Zero, Half, One, Rat(4, 1), Rat(9, 2), Rat(5, 1)}
\* start times of an Animated
StartTimes == {Rat(-1, 2), Zero, One}

SeqsUpTo(S, n) == UNION {[1 .. k -> S] : k \in 1 .. n}

----------------------------------------------------------------------------
(* Animated: the keyframe evaluator.  Its states are opaque; state i is    *)
(* _states[i], i in 0 .. Len(_durations).                                  *)

\* Animated.__init__: self._total_duration
_total_duration == FAdd(FSum(_durations), _start_time)

\* ScanSegments with `>=` for `>` in the break test: a boundary time stays
\* in the segment it ends
RECURSIVE ScanSegmentsInclusive(_, _, _)
ScanSegmentsInclusive(k, time_so_far, t) ==
    LET duration == _durations[k + 1]
    IN  IF RLe(t, FAdd(time_so_far, duration))
        THEN [i |-> k, duration |-> duration, time_so_far |-> time_so_far]
        ELSE IF k + 1 = Len(_durations)
        THEN [i |-> k, duration |-> duration,
              time_so_far |-> FAdd(time_so_far, duration)]
        ELSE ScanSegmentsInclusive(k + 1, FAdd(time_so_far, duration), t)

\* the for loop of _get_drawable_at_t over segments k .. n (0-based), from
\* time_so_far; the values of i, duration and time_so_far when it ends,
\* by break or by running out of segments
RECURSIVE ScanSegments(_, _, _)
ScanSegments(k, time_so_far, t) ==
    LET duration == _durations[k + 1]
    IN  IF RLt(t, FAdd(time_so_far, duration))
        THEN [i |-> k, duration |-> duration, time_so_far |-> time_so_far]
        ELSE IF k + 1 = Len(_durations)
        THEN [i |-> k, duration |-> duration,
              time_so_far |-> FAdd(time_so_far, duration)]
        ELSE ScanSegments(k + 1, FAdd(time_so_far, duration), t)

\* _get_drawable_at_t whose progress is measured from the start of the
\* animation, not of the segment
get_drawable_at_t_from_start(t0) ==
    LET t == FSub(t0, _start_time)
    IN  IF RLt(t, Zero) THEN [kind |-> "state", i |-> 0]
        ELSE IF RLe(FSub(FAdd(FSum(_durations), _start_time), _start_time), t)
        THEN [kind |-> "state", i |-> Len(_durations)]
        ELSE LET at == ScanSegments(0, Zero, t)
             IN  IF at.duration.n = 0 THEN [kind |-> "ZeroDivisionError"]
                 ELSE [kind |-> "tween", a |-> at.i, b |-> at.i + 1,
                       progress |-> FDiv(t, at.duration), ease_fn |-> at.i]

State(i) == [kind |-> "state", i |-> i]
tween(a, b, progress, ease_fn) ==
    [kind |-> "tween", a |-> a, b |-> b, progress |-> progress, ease_fn |-> ease_fn]
ZeroDivisionError == [kind |-> "ZeroDivisionError"]

_get_drawable_at_t(t0) ==
    LET t == FSub(t0, _start_time)
    IN  IF RLt(t, Zero) THEN State(0)
        ELSE IF RLe(FSub(_total_duration, _start_time), t)
        THEN State(Len(_durations))
        ELSE LET at == ScanSegments(0, Zero, t)
             IN  IF at.duration.n = 0 THEN ZeroDivisionError
                 ELSE tween(at.i, at.i + 1,
                            FDiv(FSub(t, at.time_so_far), at.duration), at.i)

\* _get_drawable_duration of a drawable whose subtree holds Animated
\* objects with these total durations
RECURSIVE _get_drawable_duration(_)
_get_drawable_duration(totals) ==
    IF totals = <<>> THEN Zero
    ELSE RMax(_get_drawable_duration(SubSeq(totals, 1, Len(totals) - 1)),
              totals[Len(totals)])

NoAccess == [via |-> "none", what |-> "none", before |-> Zero, value |-> [kind |-> "none"]]
Accesses == {"bounds", "children", "draw"}

\* Drawable.set_time on the child
set_time(t) == _time' = t

\* Frozen.__init__(child, t): t given, or None
FrozenInit(t) == IF t = <<>> THEN _get_drawable_duration(<<_total_duration>>) ELSE t[1]

InitAnimated ==
    /\ _durations \in SeqsUpTo(SegmentDurs, MaxSegments)
    /\ _start_time \in StartTimes
    /\ _time = Zero
    /\ \E t \in {<<>>, <<Zero>>, <<One>>} : _t = FrozenInit(t)
    /\ observed = NoAccess

\* some other holder of the child sets its time
SetTime(t) ==
    /\ set_time(t)
    /\ observed' = NoAccess
    /\ UNCHANGED <<_durations, _start_time, _t, not_animated>>

\* Animated.bounds / children / draw, read directly on the child
ChildAccess(what) ==
    /\ observed' = [via |-> "child", what |-> what, before |-> _time,
                    value |-> _get_drawable_at_t(_time)]
    /\ UNCHANGED <<_durations, _start_time, _time, _t, not_animated>>

\* Animated.frozen(t), t given or None
AnimatedFrozen(t) ==
    /\ observed' = [via |-> "frozen()", what |-> "state", before |-> _time,
                    value |-> _get_drawable_at_t(IF t = <<>> THEN _total_duration ELSE t[1])]
    /\ UNCHANGED <<_durations, _start_time, _time, _t, not_animated>>

\* _time_freeze that relies on the time set at construction
time_freeze_once == UNCHANGED _time

\* Frozen._time_freeze
_time_freeze == set_time(_t)

\* Frozen.bounds / children / draw: _time_freeze(), then the child's
FrozenAccess(what) ==
    /\ _time_freeze
    /\ observed' = [via |-> "Frozen", what |-> what, before |-> _time,
                    value |-> _get_drawable_at_t(_time')]
    /\ UNCHANGED <<_durations, _start_time, _t, not_animated>>

NextAnimated ==
    \/ \E t \in Times : SetTime(t)
    \/ \E what \in Accesses : ChildAccess(what)
    \/ \E t \in {<<>>, <<Zero>>} : AnimatedFrozen(t)
    \/ \E what \in Accesses : FrozenAccess(what)

----------------------------------------------------------------------------
(* Scene: a duration and a frame function.  A Scene made by the caller has *)
(* an opaque frame function f; the combinators' closures are modelled by   *)
(* what they capture.  A frame is [fn, t]: the drawable fn returns at t.   *)

\* Scene(duration, f): Scene.__init__
Scene(duration, f) == [op |-> "Scene", duration |-> duration, f |-> f]

\* Scene.__add__: the new Scene
Scene_add(a, other) ==
    [op |-> "add", duration |-> FAdd(a.duration, other.duration), a |-> a, b |-> other]

\* Scene.concat
concat(a, scene) == Scene_add(a, scene)

\* Scene.freeze: the new Scene
freeze(s, duration) == [op |-> "freeze", duration |-> duration, of |-> s]

\* Scene.reverse: the new Scene
reverse(s) == [op |-> "reverse", duration |-> s.duration, of |-> s]

\* the Scene Playbook.play builds around drawable
play_scene(duration, drawable) ==
    [op |-> "play", duration |-> duration, drawable |-> drawable]

RECURSIVE make_frame(_, _)

\* the frame function of __add__ with `<=` for `<`
add_frame_inclusive(s, t) ==
    IF RLe(t, s.a.duration) THEN make_frame(s.a, t)
    ELSE make_frame(s.b, FSub(t, s.a.duration))

\* the frame function of __add__ shifting by the second scene's duration
add_frame_shift_other(s, t) ==
    IF RLt(t, s.a.duration) THEN make_frame(s.a, t)
    ELSE make_frame(s.b, FSub(t, s.b.duration))

\* _make_frame of __add__
add_frame(s, t) ==
    IF RLt(t, s.a.duration) THEN make_frame(s.a, t)
    ELSE make_frame(s.b, FSub(t, s.a.duration))

\* the frame function of freeze passing its argument on
freeze_frame_at_t(s, t) == make_frame(s.of, t)

\* the lambda of freeze
freeze_frame(s, t) == make_frame(s.of, s.of.duration)

\* the lambda of reverse
reverse_frame(s, t) == make_frame(s.of, FSub(s.of.duration, t))

\* _make_frame of Playbook.play: drawable.set_time(t); return drawable
play_frame(s, t) == [fn |-> <<"drawable", s.drawable>>, t |-> t]

\* Scene.make_frame
make_frame(s, t) ==
    CASE s.op = "Scene" -> [fn |-> <<"f", s.f>>, t |-> t]
      [] s.op = "add" -> add_frame(s, t)
      [] s.op = "freeze" -> freeze_frame(s, t)
      [] s.op = "reverse" -> reverse_frame(s, t)
      [] s.op = "play" -> play_frame(s, t)

Built(op, i, j, d) == [op |-> op, i |-> i, j |-> j, d |-> d]
Heap == 1 .. Len(scenes)

\* Scene(d, f) with a frame function of its own
NewScene(d) ==
    /\ Len(scenes) < MaxScenes
    /\ Representable(d)
    /\ scenes' = Append(scenes, Scene(d, Len(scenes) + 1))
    /\ built' = Append(built, Built("Scene", 0, 0, d))
    /\ frame' = <<>>
    /\ UNCHANGED <<prec, not_scene>>

\* scenes[i].concat(scenes[j]), or scenes[i] + scenes[j]
Concat(i, j) ==
    /\ Len(scenes) < MaxScenes
    /\ scenes' = Append(scenes, concat(scenes[i], scenes[j]))
    /\ built' = Append(built, Built("add", i, j, Zero))
    /\ frame' = <<>>
    /\ UNCHANGED <<prec, not_scene>>

\* scenes[i].freeze(d)
Freeze(i, d) ==
    /\ Len(scenes) < MaxScenes
    /\ Representable(d)
    /\ scenes' = Append(scenes, freeze(scenes[i], d))
    /\ built' = Append(built, Built("freeze", i, 0, d))
    /\ frame' = <<>>
    /\ UNCHANGED <<prec, not_scene>>

\* scenes[i].reverse()
Reverse(i) ==
    /\ Len(scenes) < MaxScenes
    /\ scenes' = Append(scenes, reverse(scenes[i]))
    /\ built' = Append(built, Built("reverse", i, 0, Zero))
    /\ frame' = <<>>
    /\ UNCHANGED <<prec, not_scene>>

\* make_frame(t) of the newest Scene
MakeFrame(t) ==
    /\ scenes # <<>>
    /\ Representable(t)
    /\ frame' = <<[scene |-> Len(scenes), t |-> t,
                   drawable |-> make_frame(scenes[Len(scenes)], t)]>>
    /\ UNCHANGED <<prec, scenes, built, not_scene>>

NextScene ==
    \/ \E d \in Durs : NewScene(d)
    \/ \E i, j \in Heap : Concat(i, j)
    \/ \E i \in Heap, d \in Durs : Freeze(i, d)
    \/ \E i \in Heap : Reverse(i)
    \/ \E t \in SceneTimes : MakeFrame(t)

\* the operations that concatenation alone needs
NextConcat ==
    \/ \E d \in Durs : NewScene(d)
    \/ \E i, j \in Heap : Concat(i, j)
    \/ \E t \in SceneTimes : MakeFrame(t)

----------------------------------------------------------------------------
(* Scene.render.  The drawable's bounds and crop, the renderer and the     *)
(* writer are collaborators: bounds and pixels are opaque functions of     *)
(* what they are computed from.                                            *)

\* frame_drawable.bounds
bounds_of(drawable) == [bounds_of |-> drawable]
\* frame_drawable.crop(bounds)
crop(drawable, b) == [drawable |-> drawable, crop |-> b]
\* renderer.render(frame_drawable); renderer.get_rendered_image()
get_rendered_image(drawable) == [pixels_of |-> drawable]

\* the scenes rendered
RenderScenes ==
    {Scene(d, 1) : d \in Durs}
        \cup {concat(Scene(Half, 1), Scene(One, 2)),
              freeze(Scene(One, 1), Half),
              play_scene(One, 1)}

Stages == <<"make_frame", "bounds", "crop", "render", "get_rendered_image", "append_data">>
StageIndex(stage) == CHOOSE k \in 1 .. Len(Stages) : Stages[k] = stage

InitRender ==
    /\ self \in RenderScenes
    /\ fps \in 1 .. MaxFps
    /\ pc = "start"
    /\ total_frames = 0
    /\ frame_index = 0
    /\ bounds = <<>>
    /\ writer = [state |-> "none", frames |-> <<>>]
    /\ failed_at = <<>>

\* total_frames, the default renderer, bounds = None, and the writer opened
Open ==
    /\ pc = "start"
    /\ total_frames' = int(FMul(Rat(fps, 1), self.duration))
    /\ writer' = [state |-> "open", frames |-> <<>>]
    /\ pc' = "loop"
    /\ UNCHANGED <<self, fps, frame_index, bounds, failed_at, not_render>>

\* Renderer() or imageio.get_writer raises: the with block is not entered
OpenFails ==
    /\ pc = "start"
    /\ total_frames' = int(FMul(Rat(fps, 1), self.duration))
    /\ failed_at' = <<"get_writer", 0>>
    /\ pc' = "raised"
    /\ UNCHANGED <<self, fps, frame_index, bounds, writer, not_render>>

\* one iteration of the frame loop in which every frame is cropped to its
\* own bounds
IterateOwnBounds ==
    /\ pc = "loop"
    /\ frame_index < total_frames
    /\ LET t == FDiv(Rat(frame_index, 1), Rat(fps, 1))
           frame_drawable == make_frame(self, t)
           cropped == crop(frame_drawable, bounds_of(frame_drawable))
       IN  /\ bounds' = <<bounds_of(frame_drawable)>>
           /\ writer' = [writer EXCEPT !.frames = Append(@, get_rendered_image(cropped))]
    /\ frame_index' = frame_index + 1
    /\ UNCHANGED <<self, fps, pc, total_frames, failed_at, not_render>>

\* one iteration of the frame loop
Iterate ==
    /\ pc = "loop"
    /\ frame_index < total_frames
    /\ LET t == FDiv(Rat(frame_index, 1), Rat(fps, 1))
           frame_drawable == make_frame(self, t)
           b == IF bounds = <<>> THEN bounds_of(frame_drawable) ELSE bounds[1]
           cropped == crop(frame_drawable, b)
       IN  /\ bounds' = <<b>>
           /\ writer' = [writer EXCEPT !.frames = Append(@, get_rendered_image(cropped))]
    /\ frame_index' = frame_index + 1
    /\ UNCHANGED <<self, fps, pc, total_frames, failed_at, not_render>>

\* an iteration whose failure discards the frames appended so far
IterateFailsRollback(stage) ==
    /\ pc = "loop"
    /\ frame_index < total_frames
    /\ writer' = [writer EXCEPT !.frames = <<>>]
    /\ failed_at' = <<stage, frame_index>>
    /\ pc' = "unwinding"
    /\ UNCHANGED <<self, fps, total_frames, frame_index, bounds, not_render>>

\* an iteration in which the call `stage` raises: the exception leaves the
\* loop for the with statement
IterateFails(stage) ==
    /\ pc = "loop"
    /\ frame_index < total_frames
    /\ stage = "bounds" => bounds = <<>>
    /\ bounds' =
           IF bounds = <<>> /\ StageIndex(stage) > StageIndex("bounds")
           THEN <<bounds_of(make_frame(self, FDiv(Rat(frame_index, 1), Rat(fps, 1))))>>
           ELSE bounds
    /\ failed_at' = <<stage, frame_index>>
    /\ pc' = "unwinding"
    /\ UNCHANGED <<self, fps, total_frames, frame_index, writer, not_render>>

\* the loop is over: the with statement closes the writer, render returns
Return ==
    /\ pc = "loop"
    /\ frame_index = total_frames
    /\ writer' = [writer EXCEPT !.state = "closed"]
    /\ pc' = "done"
    /\ UNCHANGED <<self, fps, total_frames, frame_index, bounds, failed_at, not_render>>

\* the exception reaches the caller with the writer left as it is
RaiseWithoutClose ==
    /\ pc = "unwinding"
    /\ pc' = "raised"
    /\ UNCHANGED <<self, fps, total_frames, frame_index, bounds, writer, failed_at, not_render>>

\* the with statement closes the writer, then the exception reaches the caller
Raise ==
    /\ pc = "unwinding"
    /\ writer' = [writer EXCEPT !.state = "closed"]
    /\ pc' = "raised"
    /\ UNCHANGED <<self, fps, total_frames, frame_index, bounds, failed_at, not_render>>

NextRender ==
    \/ Open
    \/ OpenFails
    \/ Iterate
    \/ \E k \in 1 .. Len(Stages) : IterateFails(Stages[k])
    \/ Return
    \/ Raise

----------------------------------------------------------------------------
(* Playbook.  The timeline hook is a sequence of play, freeze and          *)
(* add_scene calls; calls is the log of the calls made.  A drawable is     *)
(* known by the total durations of the Animated drawables find_all finds   *)
(* in it.                                                                  *)

Drawables ==
    {[name |-> 1, animated |-> <<Rat(3, 1)>>],
     [name |-> 2, animated |-> <<One, Rat(4, 1), Half>>],
     [name |-> 3, animated |-> <<>>]}
PlayDurations == {<<>>, <<Half>>}
FreezeDurations == {Zero, Rat(2, 1)}
AddedScenes == {Scene(Half, 1), concat(Scene(One, 2), Scene(Zero, 3))}

\* Playbook.__init__ up to the call of timeline
InitPlaybook ==
    /\ _cursor = Zero
    /\ _scenes = <<>>
    /\ calls = <<>>
    /\ combined = <<>>
    /\ pb = "timeline"

\* Playbook.play
Play(drawable, duration) ==
    /\ pb = "timeline"
    /\ Len(calls) < MaxCalls
    /\ LET d == IF duration = <<>> THEN _get_drawable_duration(drawable.animated)
                ELSE duration[1]
       IN  /\ _scenes' = Append(_scenes, play_scene(d, drawable))
           /\ _cursor' = FAdd(_cursor, d)
    /\ calls' = Append(calls, [op |-> "play", drawable |-> drawable, duration |-> duration])
    /\ combined' = <<>>
    /\ UNCHANGED <<pb, not_playbook>>

\* Playbook.freeze
PlaybookFreeze(duration) ==
    /\ pb = "timeline"
    /\ Len(calls) < MaxCalls
    /\ IF Len(_scenes) = 0
       THEN /\ pb' = "ValueError"
            /\ UNCHANGED <<_scenes, _cursor, calls>>
       ELSE /\ _scenes' = Append(_scenes, freeze(_scenes[Len(_scenes)], duration))
            /\ _cursor' = FAdd(_cursor, duration)
            /\ calls' = Append(calls, [op |-> "freeze", duration |-> duration])
            /\ pb' = pb
    /\ combined' = <<>>
    /\ UNCHANGED not_playbook

\* Playbook.add_scene
AddScene(scene) ==
    /\ pb = "timeline"
    /\ Len(calls) < MaxCalls
    /\ _scenes' = Append(_scenes, scene)
    /\ _cursor' = FAdd(_cursor, scene.duration)
    /\ calls' = Append(calls, [op |-> "add_scene", scene |-> scene])
    /\ combined' = <<>>
    /\ UNCHANGED <<pb, not_playbook>>

RECURSIVE SkipFirst(_, _)
\* the loop of combined_scene started from the second scene alone
SkipFirst(scene, k) ==
    IF k > Len(_scenes) THEN scene
    ELSE IF k = 2 THEN SkipFirst(_scenes[2], 3)
    ELSE SkipFirst(Scene_add(scene, _scenes[k]), k + 1)

RECURSIVE CombineFrom(_, _)
\* the loop of combined_scene: scene += next_scene for the scenes from k on
CombineFrom(scene, k) ==
    IF k > Len(_scenes) THEN scene
    ELSE CombineFrom(Scene_add(scene, _scenes[k]), k + 1)

\* the combined_scene property
CombinedScene ==
    /\ pb = "timeline"
    /\ combined = <<>>
    /\ combined' =
           IF Len(_scenes) > 0 THEN <<CombineFrom(_scenes[1], 2)>>
           ELSE <<"AssertionError">>
    /\ UNCHANGED <<_scenes, _cursor, calls, pb, not_playbook>>

NextPlaybook ==
    \/ \E drawable \in Drawables, duration \in PlayDurations : Play(drawable, duration)
    \/ \E duration \in FreezeDurations : PlaybookFreeze(duration)
    \/ \E scene \in AddedScenes : AddScene(scene)
    \/ CombinedScene

----------------------------------------------------------------------------
(* C1, C10, C9: the keyframe evaluator and the freezer.                    *)

\* acc_i: the durations of the segments before segment i (0-based)
Acc(i) == RSum(SubSeq(_durations, 1, i))
\* the first segment whose right-exclusive interval holds tp
FirstSegment(tp) ==
    CHOOSE i \in 0 .. Len(_durations) - 1 :
        /\ RLt(tp, RAdd(Acc(i), _durations[i + 1]))
        /\ \A j \in 0 .. i - 1 : ~RLt(tp, RAdd(Acc(j), _durations[j + 1]))
\* what the evaluator is to return at query time t
Evaluate(t) ==
    LET tp == RSub(t, _start_time)
    IN  IF RLt(tp, Zero) THEN State(0)
        ELSE IF RLe(RSum(_durations), tp) THEN State(Len(_durations))
        ELSE LET i == FirstSegment(tp)
             IN  tween(i, i + 1, RDiv(RSub(tp, Acc(i)), _durations[i + 1]), i)

\* C1: at every query time t, with t' = t - start_time, _get_drawable_at_t
\* returns states[0] when t' < 0, states[n] when t' >= sum(durations), and
\* otherwise the tween of states[i], states[i+1] at (t' - acc_i) / d[i] with
\* ease_fns[i], i the first segment with acc_i + d[i] > t'; a time on a
\* segment boundary belongs to the next segment, at progress 0.
C1_SegmentLookup ==
    /\ \A t \in Times : _get_drawable_at_t(t) = Evaluate(t)
    /\ observed.via = "child" => observed.value = Evaluate(observed.before)

\* a boundary between two segments was queried: the next segment at progress 0
C1_Witness ==
    /\ observed.via = "child"
    /\ observed.value.kind = "tween"
    /\ observed.value.a >= 1
    /\ observed.value.progress = Zero

\* C10: with durations >= 0 and 0 <= t' < sum(durations), the scan stops at
\* a segment of positive duration, the progress is computed without a
\* division by zero and lies in [0, 1).
C10_PositiveSegment ==
    \A t \in Times :
        LET tp == RSub(t, _start_time)
            r == _get_drawable_at_t(t)
        IN  (RLe(Zero, tp) /\ RLt(tp, RSum(_durations))) =>
                /\ r.kind = "tween"
                /\ RLt(Zero, _durations[r.a + 1])
                /\ RLe(Zero, r.progress) /\ RLt(r.progress, One)

\* an evaluator with a zero-length segment was queried inside its timeline,
\* past that segment
C10_Witness ==
    /\ observed.via = "child"
    /\ observed.value.kind = "tween"
    /\ \E k \in 1 .. Len(_durations) :
           _durations[k] = Zero /\ k <= observed.value.a

\* C9: whatever time the child was left at, an access through the Frozen
\* wrapper sets the child's time to the freeze time first, and what it
\* delegates to is the child as of the freeze time.
C9_FrozenObservesFreezeTime ==
    observed.via = "Frozen" =>
        /\ _time = _t
        /\ observed.value = Evaluate(_t)

\* the child's time had been set elsewhere to a time that shows another
\* drawable, and the wrapper was then accessed
C9_Witness ==
    /\ observed.via = "Frozen"
    /\ observed.before # _t
    /\ Evaluate(observed.before) # Evaluate(_t)

----------------------------------------------------------------------------
(* C2, C3, C4: the Scene algebra.                                          *)

\* C2: a + b is a new Scene of duration a.duration + b.duration whose frame
\* at t is a's frame at t when t < a.duration and b's frame at
\* t - a.duration otherwise; a and b are as they were.
C2_Concat ==
    \A k \in Heap :
        built[k].op = "add" =>
            LET a == scenes[built[k].i]
                b == scenes[built[k].j]
            IN  /\ scenes[k].duration = RAdd(a.duration, b.duration)
                /\ \A t \in SceneTimes :
                       make_frame(scenes[k], t) =
                           IF RLt(t, a.duration) THEN make_frame(a, t)
                           ELSE make_frame(b, RSub(t, a.duration))
                /\ scenes[k].a = a /\ scenes[k].b = b
                /\ a.op = built[built[k].i].op /\ b.op = built[built[k].j].op

\* a concatenation of two scenes of positive duration was asked for a frame
\* at the boundary between them, which the second scene gave at its time 0
C2_Witness ==
    /\ frame # <<>>
    /\ built[frame[1].scene].op = "add"
    /\ LET a == scenes[built[frame[1].scene].i]
           b == scenes[built[frame[1].scene].j]
       IN  /\ RLt(Zero, a.duration) /\ RLt(Zero, b.duration)
           /\ frame[1].t = a.duration
           /\ frame[1].drawable = make_frame(b, Zero)
           /\ frame[1].drawable # make_frame(a, a.duration)

\* the arithmetic of both groupings of a, b, c at query time t is exact
Exact(x) == RoundTo(x, prec) = x
ExactGrouping(da, db, dc, t) ==
    /\ Exact(RAdd(da, db)) /\ Exact(RAdd(RAdd(da, db), dc))
    /\ Exact(RAdd(db, dc)) /\ Exact(RAdd(da, RAdd(db, dc)))
    /\ RLe(da, t) => Exact(RSub(t, da))
    /\ RLe(RAdd(da, db), t) =>
           Exact(RSub(t, RAdd(da, db))) /\ Exact(RSub(RSub(t, da), db))

\* both groupings of a, b, c have the same duration and the same frame at t
SameGrouping(a, b, c, t) ==
    LET l == concat(concat(a, b), c)
        r == concat(a, concat(b, c))
    IN  l.duration = r.duration /\ make_frame(l, t) = make_frame(r, t)

C4_Freeze ==
    \A k \in Heap :
        built[k].op = "freeze" =>
            LET s == scenes[built[k].i]
            IN  /\ scenes[k].duration = built[k].d
                /\ \A t \in SceneTimes :
                       make_frame(scenes[k], t) = make_frame(s, s.duration)

\* the freeze of a concatenation, reversal or freeze of positive duration
\* was asked for its frame at time 0
C4_Witness ==
    /\ frame # <<>>
    /\ built[frame[1].scene].op = "freeze"
    /\ built[built[frame[1].scene].i].op \in {"add", "reverse", "freeze"}
    /\ RLt(Zero, scenes[built[frame[1].scene].i].duration)
    /\ RLt(Zero, scenes[frame[1].scene].duration)
    /\ frame[1].t = Zero
    /\ frame[1].drawable # make_frame(scenes[built[frame[1].scene].i], Zero)

----------------------------------------------------------------------------
(* C5, C6, C7: render.                                                     *)

\* the largest integer n with n <= x, for x >= 0
Floor(x) == CHOOSE n \in 0 .. x.n : RLe(Rat(n, 1), x) /\ RLt(x, Rat(n + 1, 1))
\* frame k as the sink is to receive it: the scene's frame at k / fps,
\* cropped to the bounds of the frame at 0
ExpectedFrame(k) ==
    get_rendered_image(
        crop(make_frame(self, RDiv(Rat(k, 1), Rat(fps, 1))),
             bounds_of(make_frame(self, Zero))))

\* C5: the sink receives frames 0, 1, ... in order, frame k being the
\* scene's frame at k / fps cropped to the bounds of frame 0, and a render
\* that completes has appended exactly floor(fps * duration) of them.
C5_RenderFrames ==
    /\ \A k \in 1 .. Len(writer.frames) : writer.frames[k] = ExpectedFrame(k - 1)
    /\ pc = "done" =>
           Len(writer.frames) = Floor(RMul(Rat(fps, 1), self.duration))

\* a render completed with several frames of different bounds, fps * duration
\* not being an integer
C5_Witness ==
    /\ pc = "done"
    /\ Len(writer.frames) >= 2
    /\ RMul(Rat(fps, 1), self.duration).d # 1
    /\ bounds_of(make_frame(self, RDiv(One, Rat(fps, 1)))) # bounds[1]

\* C6: the sink is open while the frame loop runs and is closed when render
\* returns and when a failure in the loop reaches the caller.
C6_SinkClosed ==
    /\ pc \in {"loop", "unwinding"} => writer.state = "open"
    /\ pc = "done" => writer.state = "closed"
    /\ (pc = "raised" /\ failed_at[1] # "get_writer") => writer.state = "closed"

\* a failure at a later frame reached the caller
C6_Witness ==
    /\ pc = "raised"
    /\ failed_at[1] # "get_writer"
    /\ failed_at[2] > 0
    /\ writer.state = "closed"

\* C7 as stated: a render that returns has written all its frames, and one
\* that fails at frame k > 0 does not leave the first k frames in the sink.
C7_NoPartialResult ==
    /\ pc = "done" => Len(writer.frames) = total_frames
    /\ (pc = "raised" /\ failed_at[2] > 0) => Len(writer.frames) # failed_at[2]

\* C7 as amended: a render that returns has written all its frames; one that
\* fails at frame k raises to the caller, and the closed sink then holds the
\* frames 0 .. k-1 appended before the failure, k less than the frames asked.
C7_FailureKeepsPrefix ==
    /\ pc = "done" => failed_at = <<>> /\ Len(writer.frames) = total_frames
    /\ pc = "raised" =>
           /\ failed_at # <<>>
           /\ Len(writer.frames) = failed_at[2]
           /\ failed_at[1] # "get_writer" => failed_at[2] < total_frames
           /\ \A k \in 1 .. failed_at[2] : writer.frames[k] = ExpectedFrame(k - 1)

\* a render failed at a later frame and raised
C7_Witness ==
    /\ pc = "raised"
    /\ failed_at[2] > 0
    /\ writer.state = "closed"
    /\ Len(writer.frames) = failed_at[2]

----------------------------------------------------------------------------
(* C8: Playbook.                                                           *)

\* the duration a call contributes: given or derived for play, given for
\* freeze, the scene's for add_scene
Contribution(call) ==
    CASE call.op = "play" ->
             IF call.duration # <<>> THEN call.duration[1]
             ELSE IF call.drawable.animated = <<>> THEN Zero
             ELSE LET totals == {call.drawable.animated[k] :
                                     k \in 1 .. Len(call.drawable.animated)}
                  IN  CHOOSE m \in totals : \A x \in totals : RLe(x, m)
      [] call.op = "freeze" -> call.duration
      [] call.op = "add_scene" -> call.scene.duration
RECURSIVE SumOfContributions(_)
SumOfContributions(log) ==
    IF log = <<>> THEN Zero
    ELSE RAdd(Contribution(log[1]), SumOfContributions(Tail(log)))
RECURSIVE SceneOfCall(_)
\* the scene call k adds to the list
SceneOfCall(k) ==
    CASE calls[k].op = "play" -> play_scene(Contribution(calls[k]), calls[k].drawable)
      [] calls[k].op = "freeze" -> freeze(SceneOfCall(k - 1), calls[k].duration)
      [] calls[k].op = "add_scene" -> calls[k].scene
RECURSIVE LeftFold(_)
\* concat(... concat(concat(s1, s2), s3) ..., sn)
LeftFold(list) ==
    IF Len(list) = 1 THEN list[1]
    ELSE concat(LeftFold(SubSeq(list, 1, Len(list) - 1)), list[Len(list)])

\* C8: after a non-empty sequence of play, freeze and add_scene calls, the
\* combined scene read is the left fold of the scene list with concat, its
\* duration is the sum of the calls' contributions in order, and the scene
\* list is, before and after the read, the list the calls built.
C8_CombinedScene ==
    pb = "timeline" =>
        /\ Len(_scenes) = Len(calls)
        /\ \A k \in 1 .. Len(calls) : _scenes[k] = SceneOfCall(k)
        /\ (combined # <<>> /\ calls # <<>>) =>
               /\ combined[1] = LeftFold(_scenes)
               /\ combined[1].duration = SumOfContributions(calls)

\* play of total duration 3, freeze(2), play of total duration 4, read: 9
C8_Witness ==
    /\ Len(calls) = 3
    /\ calls[1].op = "play" /\ calls[1].duration = <<>>
    /\ Contribution(calls[1]) = Rat(3, 1)
    /\ calls[2] = [op |-> "freeze", duration |-> Rat(2, 1)]
    /\ calls[3].op = "play" /\ calls[3].duration = <<>>
    /\ Contribution(calls[3]) = Rat(4, 1)
    /\ combined # <<>>
    /\ combined[1].duration = Rat(9, 1)

----------------------------------------------------------------------------
IdleScene == scenes = <<>> /\ built = <<>> /\ frame = <<>>
IdleRender ==
    /\ self = <<>> /\ fps = 0 /\ pc = "idle" /\ total_frames = 0 /\ frame_index = 0
    /\ bounds = <<>> /\ writer = <<>> /\ failed_at = <<>>
IdlePlaybook ==
    /\ _scenes = <<>> /\ _cursor = Zero /\ calls = <<>> /\ combined = <<>> /\ pb = "idle"
IdleAnimated ==
    /\ _durations = <<>> /\ _start_time = Zero /\ _time = Zero /\ _t = Zero
    /\ observed = NoAccess

InitSpecAnimated == prec = 0 /\ InitAnimated /\ IdleScene /\ IdleRender /\ IdlePlaybook
SpecAnimated == InitSpecAnimated /\ [][NextAnimated]_vars

InitSpecScene == prec = 0 /\ IdleScene /\ IdleAnimated /\ IdleRender /\ IdlePlaybook
SpecScene == InitSpecScene /\ [][NextScene]_vars

InitSpecRounded ==
    prec \in {0, MantissaBits} /\ IdleScene /\ IdleAnimated /\ IdleRender /\ IdlePlaybook
SpecRounded == InitSpecRounded /\ [][NextConcat]_vars

InitSpecRender == prec = 0 /\ InitRender /\ IdleAnimated /\ IdleScene /\ IdlePlaybook
SpecRender == InitSpecRender /\ [][NextRender]_vars

InitSpecPlaybook == prec = 0 /\ InitPlaybook /\ IdleAnimated /\ IdleScene /\ IdleRender
SpecPlaybook == InitSpecPlaybook /\ [][NextPlaybook]_vars

====
